---------------------------- MODULE Spec2Model ----------------------------
(***************************************************************************)
(* A model of the ray-cast solar-system renderer (src/src/main.rs,         *)
(* renderer.rs, math.rs, shader.rs, color.rs).                             *)
(*                                                                         *)
(* Numbers.  An f32 of the geometry and shading code is a fixed-point      *)
(* integer: the value v is the integer v * S.  Products, quotients and     *)
(* square roots round toward minus infinity to that grid.  The host        *)
(* loop's two accumulators (time, sky_rotation) are exact f32 values: the  *)
(* integer n is the f32 n * 2^-29, and F32Round rounds a sum to the 24-bit *)
(* significand, ties to even, as the hardware does.  The non-finite f32    *)
(* values are three integers off the finite grid (INFINITY, NEG_INFINITY,  *)
(* NAN).                                                                   *)
(***************************************************************************)
EXTENDS Integers, Sequences, FiniteSets, TLC

\* ------------------------------------------------------------------ f32
\* The resolution of the fixed-point stand-in for f32.
S == 10000

\* x * y on the grid; the split keeps every intermediate within 32 bits.
Mul(x, y) ==
    (x \div S) * y + (x % S) * (y \div S) + ((x % S) * (y % S)) \div S

\* x / y on the grid, y > 0.
Div(x, y) == (x \div y) * S + ((x % y) * S) \div y

\* x / y for either sign of y (y # 0).
FDiv(x, y) == IF y > 0 THEN Div(x, y) ELSE Div(-x, -y)

Abs(x) == IF x < 0 THEN -x ELSE x

\* r * r <= x * S, decided without forming x * S.
SqLe(r, x) ==
    LET rh == r \div S
        rl == r % S
        q  == rh * rh * S + 2 * rh * rl + (rl * rl) \div S
        m  == (rl * rl) % S
    IN  q < x \/ (q = x /\ m = 0)

RECURSIVE SqrtSearch(_, _, _)
\* The largest r' = r + d * step + ... with r' * r' <= x * S, one base-16
\* digit d per level.
SqrtSearch(x, r, step) ==
    IF step = 0 THEN r
    ELSE SqrtSearch(x,
                    r + step * Cardinality({d \in 1..15 : SqLe(r + d * step, x)}),
                    step \div 16)

\* f32::sqrt of a non-negative value: the largest grid value r with r*r <= x.
Sqrt(x) == SqrtSearch(x, 0, 65536)

\* x * x
Square(x) == Mul(x, x)

RECURSIVE Powi(_, _)
\* f32::powf with a whole exponent n >= 1, by squaring.
Powi(x, n) ==
    IF n <= 1 THEN x
    ELSE IF n % 2 = 0 THEN Square(Powi(x, n \div 2))
    ELSE Mul(x, Powi(x, n - 1))

\* pi, pi/2, pi/4 and 2*pi on the grid.
PI == 31416
HALF_PI == 15708
QUARTER_PI == 7854
TWO_PI == 62832

\* The sine and cosine kernels on [-pi/4, pi/4] (Taylor polynomials in
\* Horner form; x2 is x * x).
SinPoly(x, x2) ==
    x - Mul(Mul(x, x2),
            S \div 6 - Mul(x2, S \div 120 - Mul(x2, S \div 5040)))

CosPoly(x2) ==
    S - Mul(x2, S \div 2 - Mul(x2, S \div 24 - Mul(x2, S \div 720)))

\* The value in quadrant k of the offset d from k * pi/2.
SinQuadrant(k, d) ==
    (IF k < 2 THEN 1 ELSE -1)
    * (IF k % 2 = 0 THEN SinPoly(d, Mul(d, d)) ELSE CosPoly(Mul(d, d)))

SinReduced(r) ==
    SinQuadrant(((r + QUARTER_PI) \div HALF_PI) % 4,
                r - ((r + QUARTER_PI) \div HALF_PI) * HALF_PI)

\* f32::sin: reduce to a quadrant, then the kernel of that quadrant.
Sin(x) == SinReduced(x % TWO_PI)

\* f32::cos.
Cos(x) == SinReduced((x + HALF_PI) % TWO_PI)

\* atan on [0, 1]: q * (pi/4 + 0.273 * (1 - q)).
AtanUnit(q) == Mul(q, QUARTER_PI + Mul((273 * S) \div 1000, S - q))

\* atan2 from the angle a of (|y|, |x|) in the first quadrant.
AtanSigned(y, x, a) ==
    (IF y < 0 THEN -1 ELSE 1) * (IF x < 0 THEN PI - a ELSE a)

\* f32::atan2(y, x).
Atan2(y, x) ==
    AtanSigned(y, x,
               IF x = 0 /\ y = 0 THEN 0
               ELSE IF Abs(y) <= Abs(x) THEN AtanUnit(Div(Abs(y), Abs(x)))
               ELSE HALF_PI - AtanUnit(Div(Abs(x), Abs(y))))

\* The element of a one-element set.  A Rust `let x = value;` that the code
\* evaluates before it goes on is written The({body : x \in {value}}).
The(s) == CHOOSE c \in s : TRUE

\* ---------------------------------------------------------------- Vec3
vec3(x, y, z) == [x |-> x, y |-> y, z |-> z]

VAdd(a, b) == vec3(a.x + b.x, a.y + b.y, a.z + b.z)

VSub(a, b) == vec3(a.x - b.x, a.y - b.y, a.z - b.z)

VScale(a, k) == vec3(Mul(a.x, k), Mul(a.y, k), Mul(a.z, k))

VDiv(a, k) == vec3(Div(a.x, k), Div(a.y, k), Div(a.z, k))

VSplat(k) == vec3(k, k, k)

dot(a, b) == Mul(a.x, b.x) + Mul(a.y, b.y) + Mul(a.z, b.z)

cross(a, b) ==
    vec3(Mul(a.y, b.z) - Mul(a.z, b.y),
         Mul(a.z, b.x) - Mul(a.x, b.z),
         Mul(a.x, b.y) - Mul(a.y, b.x))

\* glm::normalize of a non-zero vector.
normalize(a) == The({VDiv(a, len) : len \in {Sqrt(dot(a, a))}})

\* ----------------------------------------------------- Option, specials
None == [some |-> FALSE]

Some(v) == [some |-> TRUE, val |-> v]

\* f32::INFINITY, f32::NEG_INFINITY and f32::NAN: three values off the finite
\* grid (every finite value of the model is below 2^30 in magnitude).
INFINITY == 1073741824
NEG_INFINITY == -1073741824
NAN == 1073741825

\* f32::min and f32::max: a NaN operand yields the other operand.
fmin(a, b) == IF a = NAN THEN b ELSE IF b = NAN THEN a ELSE IF a < b THEN a ELSE b

fmax(a, b) == IF a = NAN THEN b ELSE IF b = NAN THEN a ELSE IF a > b THEN a ELSE b

\* f32::is_finite.
is_finite(v) == v # NAN /\ v # INFINITY /\ v # NEG_INFINITY

\* ------------------------------------------------------- host f32 values
\* time and sky_rotation are exact f32 values in units of 2^-29.
RECURSIVE F32Ulp(_, _)
\* The spacing of the f32 grid at n (in units of 2^-29).
F32Ulp(n, u) == IF Abs(n) < 16777216 * u THEN u ELSE F32Ulp(n, 2 * u)

\* n rounded to a multiple of u, ties to even.
RoundTo(n, u) ==
    IF 2 * (n % u) < u THEN (n \div u) * u
    ELSE IF 2 * (n % u) > u THEN (n \div u + 1) * u
    ELSE IF (n \div u) % 2 = 0 THEN (n \div u) * u
    ELSE (n \div u + 1) * u

\* The f32 nearest to the exact value n * 2^-29.
F32Round(n) == RoundTo(n, F32Ulp(n, 1))

F32Add(a, b) == F32Round(a + b)

F32Sub(a, b) == F32Round(a - b)

\* A host f32 on the fixed-point grid of the geometry code.
Fx(n) == ((n \div 32768) * S) \div 16384

\* ---------------------------------------------------------------- math.rs
Ray(origin, direction) == [origin |-> origin, direction |-> direction]

Camera_new(position, target, up, fov, aspect) ==
    [position |-> position, target |-> target, up |-> up,
     fov |-> fov, aspect |-> aspect]

\* glm::look_at's basis: f toward the target, s to the right, u up.
LookBasis(f, s) == [f |-> f, s |-> s, u |-> cross(s, f)]

look_at(position, target, up) ==
    The({LookBasis(f, normalize(cross(f, up))) :
           f \in {normalize(VSub(target, position))}})

\* inv_proj * (2u-1, 2v-1, -1, 1) with its w dropped (vec4_to_vec3):
\* (x * aspect * tan(fov/2), y * tan(fov/2), -1).
NearPoint(u, v, aspect, tan_half) ==
    vec3(Mul(Mul(2 * u - S, aspect), tan_half), Mul(2 * v - S, tan_half), -S)

\* inv_view * (near_point, 1).
WorldNear(position, basis, near_point) ==
    VAdd(position,
         VAdd(VAdd(VScale(basis.s, near_point.x), VScale(basis.u, near_point.y)),
              VScale(basis.f, -near_point.z)))

\* Camera::get_ray.
get_ray(self, u, v) ==
    The({Ray(self.position,
             normalize(VSub(WorldNear(self.position, basis, near_point),
                            self.position))) :
           basis \in {look_at(self.position, self.target, self.up)},
           near_point \in {NearPoint(u, v, self.aspect,
                                     Div(Sin(self.fov \div 2),
                                         Cos(self.fov \div 2)))}})

Sphere_new(center, radius) == [center |-> center, radius |-> radius]

\* a, b, c and the discriminant from oc = origin - center.
QuadraticOf(oc, direction, radius) ==
    [a |-> dot(direction, direction),
     b |-> 2 * dot(oc, direction),
     disc |-> Mul(2 * dot(oc, direction), 2 * dot(oc, direction))
              - Mul(4 * dot(direction, direction),
                    dot(oc, oc) - Mul(radius, radius))]

\* The far root (a mistaken choice of sign).
RootLarger(q) == Div(-q.b + Sqrt(q.disc), 2 * q.a)

\* The root the code takes: (-b - sqrt(disc)) / (2a).
Root(q) == Div(-q.b - Sqrt(q.disc), 2 * q.a)

\* `if t > 0.0 { Some(t) } else { None }`.
PositiveT(t) == IF t > 0 THEN Some(t) ELSE None

\* `if discriminant < 0.0 { None } else { ... }`.
Solve(q) == IF q.disc < 0 THEN None ELSE PositiveT(Root(q))

\* Sphere::intersect.
Sphere_intersect(self, ray) ==
    Solve(QuadraticOf(VSub(ray.origin, self.center), ray.direction, self.radius))

\* Sphere::normal_at.
normal_at(self, point) == normalize(VSub(point, self.center))

\* intersect_sphere (renderer.rs): the same test with an explicit center.
intersect_sphere(center, radius, ray) ==
    Solve(QuadraticOf(VSub(ray.origin, center), ray.direction, radius))

\* ------------------------------------------------------------ renderer.rs
WIDTH == 4
HEIGHT == 2

\* A catalog entry: direction (unit), brightness, color.
Star(dir, brightness, color) ==
    [dir |-> dir, brightness |-> brightness, color |-> color]

\* Scene::new, for the catalog the random generator produced.
Scene_new(stars) ==
    [camera |-> Camera_new(vec3(0, 0, 10 * S), vec3(0, 0, 0), vec3(0, S, 0),
                           QUARTER_PI, Div(WIDTH * S, HEIGHT * S)),
     sun |-> Sphere_new(vec3(0, 0, 0), S),
     rocky_planet |-> Sphere_new(vec3(2 * S, 0, 0), S \div 2),
     gas_giant |-> Sphere_new(vec3((7 * S) \div 2, 0, 0), (8 * S) \div 10),
     stars |-> stars,
     sky_rotation |-> 0,
     rocky_orbit_center |-> vec3(0, 0, 0),
     rocky_orbit_radius |-> 2 * S,
     rocky_orbit_speed |-> (6 * S) \div 10,
     rocky_spin_speed |-> 2 * S,
     gas_orbit_center |-> vec3(0, 0, 0),
     gas_orbit_radius |-> (7 * S) \div 2,
     gas_orbit_speed |-> (3 * S) \div 10,
     gas_spin_speed |-> (12 * S) \div 10]

\* glm::vec3(c.x + r * angle.cos(), c.y, c.z + r * angle.sin()).
OrbitAt(orbit_center, orbit_radius, angle) ==
    vec3(orbit_center.x + Mul(orbit_radius, Cos(angle)),
         orbit_center.y,
         orbit_center.z + Mul(orbit_radius, Sin(angle)))

\* rocky_center at `time` (renderer.rs 118-123 and 176-180).
rocky_center(self, time) ==
    OrbitAt(self.rocky_orbit_center, self.rocky_orbit_radius,
            Mul(self.rocky_orbit_speed, Fx(time)))

\* gas_center at `time` (renderer.rs 135-140 and 188-192).
gas_center(self, time) ==
    OrbitAt(self.gas_orbit_center, self.gas_orbit_radius,
            Mul(self.gas_orbit_speed, Fx(time)))

\* The locals of ray_intersect before the first test.
NoHit ==
    [closest_hit |-> INFINITY, hit_point |-> None, hit_normal |-> None,
     hit_type |-> 0]

\* A candidate that also wins on an equal t (a mistaken comparison).
CloserOrEqual(t, closest_hit) == t <= closest_hit

\* `if t < closest_hit`.
Closer(t, closest_hit) == t < closest_hit

\* A replacement that leaves closest_hit as it was (the forgotten assignment
\* of ray_color's last branch).
TakeForgetT(h, t, point, normal, type) ==
    [closest_hit |-> h.closest_hit, hit_point |-> Some(point),
     hit_normal |-> Some(normal), hit_type |-> type]

\* A replacement that leaves hit_type as it was.
TakeUntagged(h, t, point, normal, type) ==
    [closest_hit |-> t, hit_point |-> Some(point),
     hit_normal |-> Some(normal), hit_type |-> h.hit_type]

\* The body of `if t < closest_hit { ... }`.
Take(h, t, point, normal, type) ==
    [closest_hit |-> t, hit_point |-> Some(point),
     hit_normal |-> Some(normal), hit_type |-> type]

\* ray.origin + ray.direction * t
PointAt(ray, t) == VAdd(ray.origin, VScale(ray.direction, t))

\* The replacement for the hit at `point` of the body centred at `center`.
TakeAt(h, t, point, center, type) ==
    Take(h, t, point, normalize(VSub(point, center)), type)

\* `if let Some(t) = r { if t < closest_hit { ... } }`.
Offer(h, r, ray, center, type) ==
    IF r.some /\ Closer(r.val, h.closest_hit)
    THEN TakeAt(h, r.val, PointAt(ray, r.val), center, type)
    ELSE h

\* Sun (static): renderer.rs 107-115.
TestSun(self, ray, h) ==
    Offer(h, Sphere_intersect(self.sun, ray), ray, self.sun.center, 1)

\* An orbiting body, tested at its centre for this time.
TestBody(center, radius, ray, h, type) ==
    Offer(h, intersect_sphere(center, radius, ray), ray, center, type)

\* Rocky planet: renderer.rs 118-132.
TestRocky(self, ray, time, h) ==
    TestBody(rocky_center(self, time), self.rocky_planet.radius, ray, h, 2)

\* Gas giant: renderer.rs 135-149.
TestGas(self, ray, time, h) ==
    TestBody(gas_center(self, time), self.gas_giant.radius, ray, h, 3)

\* renderer.rs 151-155.
HitResult(h) ==
    IF h.hit_point.some /\ h.hit_normal.some
    THEN Some([t |-> h.closest_hit, point |-> h.hit_point.val,
               normal |-> h.hit_normal.val, type |-> h.hit_type])
    ELSE None

\* Scene::ray_intersect.
ray_intersect(self, ray, time) ==
    HitResult(TestGas(self, ray, time,
                      TestRocky(self, ray, time, TestSun(self, ray, NoHit))))

\* -------------------------------------------------------------- shader.rs
LIGHT_POS == vec3(-2 * S, 0, -2 * S)

saturate(x) == fmin(fmax(x, 0), S)

tri_noise(p, freq, t) ==
    The({saturate(Mul(Mul(Mul(s, c), d) + S, S \div 2)) :
           s \in {Sin(Mul(p.x, freq) + t)},
           c \in {Cos(Mul(Mul(p.y, freq), (7 * S) \div 10) - Mul(t, S \div 2))},
           d \in {Sin(Mul(Mul(p.z, freq), (3 * S) \div 10)
                      + Mul(t, (3 * S) \div 10))}})

\* a * (1 - k) + b * k
Mix(a, b, k) == VAdd(VScale(a, S - k), VScale(b, k))

\* (1.0 - saturate(d)).powf(3.0) * k
RimTerm(d, k) == Mul(Powi(S - saturate(d), 3), k)

white_hot == vec3(S, S, (98 * S) \div 100)
yellow_bright == vec3(S, (95 * S) \div 100, (2 * S) \div 10)
yellow_deep == vec3((95 * S) \div 100, (75 * S) \div 100, (15 * S) \div 100)
orange_dark == vec3((9 * S) \div 10, (4 * S) \div 10, 0)

\* streak_pattern (shader.rs 31-34).
StreakPattern(world_pos, time, streaks) ==
    Abs(Mul(streaks, (15 * S) \div 10)
        + Mul(Sin(world_pos.x * 10 + time), S \div 2)
        + Mul(Cos(world_pos.y * 8 - Mul(time, (7 * S) \div 10)), (4 * S) \div 10)
        + Mul(Sin(world_pos.z * 6 + Mul(time, (3 * S) \div 10)), (3 * S) \div 10))

\* `if white_intensity > 0.1 { combined += white_hot * (white_intensity * 0.9) }`
AddWhite(combined, white_intensity) ==
    IF white_intensity > S \div 10
    THEN VAdd(combined, VScale(white_hot, Mul(white_intensity, (9 * S) \div 10)))
    ELSE combined

\* `if orange_intensity > 0.0 { combined += orange_dark * (orange_intensity * 0.9) }`
AddOrange(combined, orange_intensity) ==
    IF orange_intensity > 0
    THEN VAdd(combined, VScale(orange_dark, Mul(orange_intensity, (9 * S) \div 10)))
    ELSE combined

\* base_yellow * (0.7 + 0.5 * tri_noise(world_pos, 12.0, time))
SunBase(yellow_mix, base_var) ==
    VScale(Mix(yellow_bright, yellow_deep, yellow_mix),
           (7 * S) \div 10 + Mul(S \div 2, base_var))

\* sun_shader from its intensities on (shader.rs 42-59).
SunCombined(white_intensity, orange_intensity, yellow_mix, base_var, rim, final_var) ==
    VScale(VAdd(AddOrange(AddWhite(SunBase(yellow_mix, base_var),
                                   white_intensity),
                          orange_intensity),
                VScale(orange_dark, rim)),
           (8 * S) \div 10 + Mul((4 * S) \div 10, final_var))

\* sun_shader from its noise layers on (shader.rs 31-59).
SunLayers(world_pos, normal, view, time, spots, yellow_var, streaks) ==
    The({SunCombined(white_intensity, orange_intensity, yellow_mix, base_var,
                     rim, final_var) :
           white_intensity \in {saturate((spots - (8 * S) \div 10) * 4)},
           orange_intensity \in
               {saturate(Mul(StreakPattern(world_pos, time, streaks)
                             - (4 * S) \div 10,
                             (25 * S) \div 10))},
           yellow_mix \in {saturate(Mul(yellow_var, (12 * S) \div 10))},
           base_var \in {tri_noise(world_pos, 12 * S, time)},
           rim \in {RimTerm(dot(view, normal), (4 * S) \div 10)},
           final_var \in {tri_noise(world_pos, 25 * S,
                                    Mul(time, (18 * S) \div 10))}})

sun_shader(world_pos, normal, view, time) ==
    The({SunLayers(world_pos, normal, view, time, spots, yellow_var, streaks) :
           spots \in {tri_noise(world_pos, 35 * S, Mul(time, (25 * S) \div 10))},
           yellow_var \in {tri_noise(world_pos, 18 * S,
                                     Mul(time, (14 * S) \div 10))},
           streaks \in {tri_noise(world_pos, 15 * S,
                                  Mul(time, (12 * S) \div 10))}})

rock_dark == vec3((35 * S) \div 100, (23 * S) \div 100, (12 * S) \div 100)
rock_light == vec3(S \div 2, S \div 2, (48 * S) \div 100)

\* base_color * (ambient + diffuse), ambient = 0.3, diffuse = n_dot_l * 0.7
Lit(base_color, normal, light_dir) ==
    VScale(base_color,
           (3 * S) \div 10 + Mul(saturate(dot(normal, light_dir)), (7 * S) \div 10))

\* saturate(dot(normal, half_vec)).powf(n) * k, half_vec = normalize(l + v)
Specular(normal, light_dir, view, n, k) ==
    The({Mul(Powi(saturate(dot(normal, half_vec)), n), k) :
           half_vec \in {normalize(VAdd(light_dir, view))}})

\* final_color *= 1.0 - crater_mask * 0.3
Craters(color, crater) ==
    VScale(color, S - Mul(saturate((crater - S \div 2) * 3), (3 * S) \div 10))

\* rocky_shader from its terms on (shader.rs 75-98).
RockyCombined(normal, light_dir, bands, crater, spec, rim) ==
    VAdd(VAdd(Craters(Lit(Mix(rock_dark, rock_light, bands), normal, light_dir),
                      crater),
              VSplat(spec)),
         VScale(vec3((9 * S) \div 10, (75 * S) \div 100, (55 * S) \div 100), rim))

\* rocky_shader from the light direction on (shader.rs 64-98).
RockyLit(world_pos, normal, view, light_dir) ==
    The({RockyCombined(normal, light_dir, bands, crater, spec, rim) :
           bands \in {S \div 2 + Mul(S \div 2, Sin(normal.y * 20))},
           crater \in {tri_noise(world_pos, 30 * S, 0)},
           spec \in {Specular(normal, light_dir, view, 32, (4 * S) \div 10)},
           rim \in {RimTerm(dot(normal, view), (14 * S) \div 100)}})

rocky_shader(world_pos, normal, view, time) ==
    The({RockyLit(world_pos, normal, view, light_dir) :
           light_dir \in {normalize(VSub(LIGHT_POS, world_pos))}})

color1 == vec3((95 * S) \div 100, (78 * S) \div 100, (48 * S) \div 100)
color2 == vec3((25 * S) \div 100, (55 * S) \div 100, (85 * S) \div 100)

\* bands = (flow + turbulence * 2.0).sin() * 0.5 + 0.5
GasBands(flow, turbulence) == Mul(Sin(flow + turbulence * 2), S \div 2) + S \div 2

\* flow = lon * 6.0 + time * 0.8 + (lat * 10.0).sin() * 0.5
GasFlow(lat, lon, time) ==
    lon * 6 + Mul(time, (8 * S) \div 10) + Mul(Sin(lat * 10), S \div 2)

\* gas_giant_shader from its terms on (shader.rs 116-136).
GasCombined(normal, light_dir, bands, spec, rim) ==
    VAdd(VAdd(Lit(Mix(color2, color1, bands), normal, light_dir), VSplat(spec)),
         VScale(vec3((6 * S) \div 10, (7 * S) \div 10, (95 * S) \div 100), rim))

\* gas_giant_shader from flow, turbulence and the light direction on.
GasLit(normal, view, flow, turbulence, light_dir) ==
    The({GasCombined(normal, light_dir, bands, spec, rim) :
           bands \in {GasBands(flow, turbulence)},
           spec \in {Specular(normal, light_dir, view, 16, (3 * S) \div 10)},
           rim \in {RimTerm(dot(normal, view), (2 * S) \div 10)}})

gas_giant_shader(world_pos, normal, view, time) ==
    The({GasLit(normal, view, flow, turbulence, light_dir) :
           flow \in {GasFlow(normal.y, Atan2(normal.x, normal.z), time)},
           turbulence \in {tri_noise(world_pos, 8 * S, Mul(time, S \div 2))},
           light_dir \in {normalize(VSub(LIGHT_POS, world_pos))}})

\* --------------------------------------------------------------- packing
\* `as u32` of an f32: toward zero, saturating, NaN to 0.
as_u32(v) ==
    IF v = NAN \/ v <= 0 THEN 0
    ELSE IF v = INFINITY THEN 2147483647
    ELSE v \div S

\* `as u8` of an f32.
as_u8(v) == IF as_u32(v) > 255 THEN 255 ELSE as_u32(v)

RECURSIVE BitOrWide(_, _, _)
\* a | b of two values of w bits (w a power of two): the upper and the
\* lower half, each on its own.
BitOrWide(a, b, w) ==
    IF a = 0 THEN b
    ELSE IF b = 0 THEN a
    ELSE IF w = 1 THEN 1
    ELSE 2^(w \div 2) * BitOrWide(a \div 2^(w \div 2), b \div 2^(w \div 2), w \div 2)
         + BitOrWide(a % 2^(w \div 2), b % 2^(w \div 2), w \div 2)

\* a | b of two u32 values.
BitOr(a, b) == BitOrWide(a, b, 32)

\* a << n of a u32 value below 2^(31 - n) (no bit is shifted out).
Shl(a, n) == a * 2^n

\* A channel rounded to nearest (the packing of Color::clamp_u8, misplaced).
ChannelRounded(c) == as_u32(Mul(fmax(fmin(c, S), 0), 255 * S) + S \div 2)

\* One channel of vec3_to_color: (c.min(1.0).max(0.0) * 255.0) as u32.
Channel(c) == as_u32(Mul(fmax(fmin(c, S), 0), 255 * S))

\* vec3_to_color: (r << 16) | (g << 8) | b.
vec3_to_color(v) ==
    BitOr(BitOr(Shl(Channel(v.x), 16), Shl(Channel(v.y), 8)), Channel(v.z))

\* color.rs: `let v = if v.is_finite() { v } else { 0.0 };`
FiniteOrZero(v) == IF is_finite(v) THEN v ELSE 0

\* color.rs: the inner fn c of Color::clamp_u8.
clamp_c(v) ==
    as_u8(Mul(fmin(fmax(FiniteOrZero(v), 0), S), 255 * S) + S \div 2)

Color_new(r, g, b) == [r |-> r, g |-> g, b |-> b]

\* Color::clamp_u8.
clamp_u8(self) == <<clamp_c(self.r), clamp_c(self.g), clamp_c(self.b)>>

\* ---------------------------------------------------------------- skybox
threshold == (9995 * S) \div 10000

space_color == vec3((2 * S) \div 100, (3 * S) \div 100, (6 * S) \div 100)

\* intensity without the exponent (a dropped powf).
IntensityLinear(d, brightness) ==
    Mul(Div(d - threshold, S - threshold), brightness)

\* intensity = ((d - threshold) / (1.0 - threshold)).powf(2.0) * brightness
Intensity(d, brightness) ==
    Mul(Powi(Div(d - threshold, S - threshold), 2), brightness)

\* What one catalog star adds to accum for the dot product d.
StarTerm(d, star) ==
    IF d > threshold
    THEN VScale(star.color, Intensity(d, star.brightness))
    ELSE vec3(0, 0, 0)

\* The view direction rotated around Y: (c*x + s*z, y, -s*x + c*z).
RotSky(dir, c, s) ==
    vec3(Mul(c, dir.x) + Mul(s, dir.z), dir.y, Mul(-s, dir.x) + Mul(c, dir.z))

\* rdir (renderer.rs 274-278).
SkyDir(dir, rotation) == RotSky(dir, Cos(rotation), Sin(rotation))

RECURSIVE StarLoop(_, _, _, _)
\* `for (star_dir, brightness, color) in &self.stars`.
StarLoop(stars, rdir, accum, i) ==
    IF i > Len(stars) THEN accum
    ELSE StarLoop(stars, rdir,
                  VAdd(accum, StarTerm(dot(rdir, stars[i].dir), stars[i])),
                  i + 1)

\* Scene::skybox_color.
skybox_color(self, dir, rotation) ==
    VAdd(space_color,
         StarLoop(self.stars, SkyDir(dir, rotation), vec3(0, 0, 0), 1))

\* --------------------------------------------------------------- rotation
\* (v.x * c - v.z * s, v.y, v.x * s + v.z * c)
RotY(v, c, s) ==
    vec3(Mul(v.x, c) - Mul(v.z, s), v.y, Mul(v.x, s) + Mul(v.z, c))

rotate_point_around_y(p, center, angle) ==
    VAdd(RotY(VSub(p, center), Cos(angle), Sin(angle)), center)

rotate_vector_around_y(v, angle) == RotY(v, Cos(angle), Sin(angle))

\* ------------------------------------------------------------ ray_casting
\* v measured from the top (a flipped image).
PixelVFlipped(y) == Div(y * S, HEIGHT * S)

\* u = x / WIDTH and v = 1 - y / HEIGHT.
PixelU(x) == Div(x * S, WIDTH * S)

PixelV(y) == S - Div(y * S, HEIGHT * S)

\* The sun arm: the hit is shaded as it is.
ShadeSun(hit, ray, time) ==
    The({vec3_to_color(color) :
           color \in {sun_shader(hit.point, hit.normal, ray.direction, Fx(time))}})

\* The rocky arm: point and normal are turned by -rocky_spin first.
ShadeRocky(self, hit, ray, time) ==
    The({vec3_to_color(color) :
           color \in {rocky_shader(local_point, local_normal, ray.direction,
                                   Fx(time)) :
                      local_point \in {rotate_point_around_y(
                                           hit.point, rocky_center(self, time),
                                           -Mul(self.rocky_spin_speed, Fx(time)))},
                      local_normal \in {rotate_vector_around_y(
                                            hit.normal,
                                            -Mul(self.rocky_spin_speed, Fx(time)))}}})

\* The gas arm: point and normal are turned by -gas_spin first.
ShadeGas(self, hit, ray, time) ==
    The({vec3_to_color(color) :
           color \in {gas_giant_shader(local_point, local_normal, ray.direction,
                                       Fx(time)) :
                      local_point \in {rotate_point_around_y(
                                           hit.point, gas_center(self, time),
                                           -Mul(self.gas_spin_speed, Fx(time)))},
                      local_normal \in {rotate_vector_around_y(
                                            hit.normal,
                                            -Mul(self.gas_spin_speed, Fx(time)))}}})

\* The None arm: the skybox turned by sky_rotation + time * 0.05.
ShadeSky(self, ray, time) ==
    The({vec3_to_color(color) :
           color \in {skybox_color(self, ray.direction,
                                   Fx(self.sky_rotation)
                                   + Mul(Fx(time), (5 * S) \div 100))}})

\* `match self.ray_intersect(&ray, time)` (renderer.rs 168-204).
ShadeHit(self, ray, time, hit) ==
    IF hit.some
    THEN CASE hit.val.type = 1 -> ShadeSun(hit.val, ray, time)
           [] hit.val.type = 2 -> ShadeRocky(self, hit.val, ray, time)
           [] hit.val.type = 3 -> ShadeGas(self, hit.val, ray, time)
           [] OTHER -> 0
    ELSE ShadeSky(self, ray, time)

\* The colour ray_casting computes for one ray.
ShadeRay(self, ray, time) ==
    The({ShadeHit(self, ray, time, hit) : hit \in {ray_intersect(self, ray, time)}})

\* The pixel at column x of row y.
Pixel(self, x, y, time) ==
    The({ShadeRay(self, ray, time) :
           ray \in {get_ray(self.camera, PixelU(x), PixelV(y))}})

\* The closure mapped over 0..HEIGHT: `for x in 0..WIDTH { ...; row[x] = pixel }`
\* on row = vec![0; WIDTH] assigns every entry once.
RowTask(self, y, time) == [i \in 1..WIDTH |-> Pixel(self, i - 1, y, time)]

\* ================================================================ state
VARIABLES
    pc,        \* where the caller of the modelled code stands
    scene,     \* the Scene value
    time,      \* the f32 `time` (main's local, render's argument)
    keys,      \* the key state the last loop iteration read
    claimed,   \* worker -> the row it is computing (-1: idle)
    rows,      \* row -> the collected row vector, once its task returned
    buffer,    \* render's return value, while the caller holds it
    shown,     \* the buffer the window last received
    pending,   \* a buffer was rendered and not yet presented
    frames,    \* loop iterations started / render calls made
    arg,       \* the argument of the function under test
    ret        \* its locals, then its return value

vars == <<pc, scene, time, keys, claimed, rows, buffer, shown, pending,
          frames, arg, ret>>

\* ---------------------------------------------------------------- bounds
NumWorkers == 2
MaxFrames == 3
MaxCalls == 2

Workers == 1..NumWorkers
RowIds == 0..(HEIGHT - 1)

\* Two outcomes of the catalog generation of Scene::new (2 of the 2000
\* entries): unit directions, brightness in 0.5..1.0, one of the three tints.
CatalogA ==
    <<Star(vec3(0, 0, -S), (8 * S) \div 10, vec3(S, (95 * S) \div 100, (9 * S) \div 10)),
      Star(vec3(0, S, 0), S \div 2, vec3((9 * S) \div 10, (95 * S) \div 100, S))>>

CatalogB ==
    <<Star(get_ray(Scene_new(<<>>).camera, 0, S).direction, (6 * S) \div 10,
           vec3(S, (9 * S) \div 10, (7 * S) \div 10)),
      Star(vec3(-S, 0, 0), (9 * S) \div 10, vec3(S, (95 * S) \div 100, (9 * S) \div 10))>>

Catalogs == {CatalogA, CatalogB}

Idle == [w \in Workers |-> -1]
NoRows == [y \in RowIds |-> None]

\* --------------------------------------------- render: fork, rows, join
\* The slot a finished row is moved to when rows are pushed as they finish.
WriteRowPush(rs, y, row) ==
    LET free == {i \in RowIds : ~rs[i].some}
        slot == CHOOSE i \in free : \A j \in free : i <= j
    IN  [rs EXCEPT ![slot] = Some(row)]

\* collect() of the indexed parallel map: the row of task y lands in slot y.
WriteRow(rs, y, row) == [rs EXCEPT ![y] = Some(row)]

RECURSIVE Flatten(_, _, _)
\* `for r in rows { buffer.extend(r) }`.
Flatten(rs, y, buf) ==
    IF y >= HEIGHT THEN buf ELSE Flatten(rs, y + 1, buf \o rs[y].val)

\* scene.render(time) is entered: ray_casting forks one task per row.
StartRender ==
    /\ pc = "call"
    /\ pc' = "render"
    /\ rows' = NoRows
    /\ claimed' = Idle
    /\ UNCHANGED <<scene, time, keys, buffer, shown, pending, frames, arg, ret>>

\* A pool thread takes a row no thread has taken.
Claim(w, y) ==
    /\ pc = "render"
    /\ claimed[w] = -1
    /\ ~rows[y].some
    /\ \A v \in Workers : claimed[v] # y
    /\ claimed' = [claimed EXCEPT ![w] = y]
    /\ UNCHANGED <<pc, scene, time, keys, rows, buffer, shown, pending, frames,
                   arg, ret>>

\* A row task that also stores the centre it computed in the scene.
FinishStoring(w) ==
    /\ pc = "render"
    /\ claimed[w] # -1
    /\ rows' = WriteRow(rows, claimed[w], RowTask(scene, claimed[w], time))
    /\ claimed' = [claimed EXCEPT ![w] = -1]
    /\ scene' = [scene EXCEPT !.rocky_planet.center = rocky_center(scene, time)]
    /\ UNCHANGED <<pc, time, keys, buffer, shown, pending, frames, arg, ret>>

\* The thread runs the closure on its row and hands the row to collect().
Finish(w) ==
    /\ pc = "render"
    /\ claimed[w] # -1
    /\ rows' = WriteRow(rows, claimed[w], RowTask(scene, claimed[w], time))
    /\ claimed' = [claimed EXCEPT ![w] = -1]
    /\ UNCHANGED <<pc, scene, time, keys, buffer, shown, pending, frames, arg, ret>>

\* Every row is in: the rows are flattened and render returns the buffer.
Join ==
    /\ pc = "render"
    /\ \A y \in RowIds : rows[y].some
    /\ buffer' = Flatten(rows, 0, <<>>)
    /\ rows' = NoRows
    /\ pending' = TRUE
    /\ pc' = "rendered"
    /\ UNCHANGED <<scene, time, keys, claimed, shown, frames, arg, ret>>

Render ==
    \/ StartRender
    \/ \E w \in Workers, y \in RowIds : Claim(w, y)
    \/ \E w \in Workers : Finish(w)
    \/ Join

\* ---------------------------------------------------------------- main.rs
\* 0.03_f32 and 0.016_f32 in units of 2^-29.
SKY_STEP == 16106127
DT == 8589935

\* The two `if window.is_key_down(..)` statements of the loop body.
AfterKeys(sky, left, right) ==
    LET a == IF left THEN F32Sub(sky, SKY_STEP) ELSE sky
    IN  IF right THEN F32Add(a, SKY_STEP) ELSE a

\* A time that is not advanced (a dropped `time += 0.016`).
NextTimeStuck(t) == t

\* `time += 0.016`.
NextTime(t) == F32Add(t, DT)

\* `let mut scene = Scene::new(); let mut time = 0.0;`
InitMain ==
    /\ pc = "loop"
    /\ scene \in {Scene_new(c) : c \in Catalogs}
    /\ time = 0
    /\ keys = [left |-> FALSE, right |-> FALSE]
    /\ claimed = Idle
    /\ rows = NoRows
    /\ buffer = <<>>
    /\ shown = <<>>
    /\ pending = FALSE
    /\ frames = 0
    /\ arg = <<>>
    /\ ret = <<>>

\* `while window.is_open() && !window.is_key_down(Key::Escape)`.
LoopCheck ==
    /\ pc = "loop"
    /\ \/ /\ frames < MaxFrames
          /\ frames' = frames + 1
          /\ pc' = "keys"
       \/ /\ pc' = "done"
          /\ UNCHANGED frames
    /\ UNCHANGED <<scene, time, keys, claimed, rows, buffer, shown, pending,
                   arg, ret>>

\* The Left / Right key handling that precedes the render call.
HandleKeys ==
    /\ pc = "keys"
    /\ \E left \in BOOLEAN, right \in BOOLEAN :
          /\ keys' = [left |-> left, right |-> right]
          /\ scene' = [scene EXCEPT
                         !.sky_rotation = AfterKeys(@, left, right)]
    /\ pc' = "call"
    /\ UNCHANGED <<time, claimed, rows, buffer, shown, pending, frames, arg, ret>>

\* `window.update_with_buffer(&buffer, WIDTH, HEIGHT).unwrap()`.
Present ==
    /\ pc = "rendered"
    /\ \/ /\ shown' = buffer
          /\ pending' = FALSE
          /\ pc' = "advance"
       \/ /\ pc' = "panicked"
          /\ UNCHANGED <<shown, pending>>
    /\ UNCHANGED <<scene, time, keys, claimed, rows, buffer, frames, arg, ret>>

\* `time += 0.016;` and the end of the loop body, where buffer is dropped.
Advance ==
    /\ pc = "advance"
    /\ time' = NextTime(time)
    /\ buffer' = <<>>
    /\ pc' = "loop"
    /\ UNCHANGED <<scene, keys, claimed, rows, shown, pending, frames, arg, ret>>

Next == LoopCheck \/ HandleKeys \/ Render \/ Present \/ Advance

Spec == InitMain /\ [][Next]_vars

\* ------------------------------------------------- render as a function
\* Scene::render called on one scene with any times, in any order, the
\* sky turned between calls as main's loop turns it.
Times == {0, 1395864320}

InitRender ==
    /\ pc = "idle"
    /\ scene = Scene_new(CatalogB)
    /\ time = 0
    /\ keys = [left |-> FALSE, right |-> FALSE]
    /\ claimed = Idle
    /\ rows = NoRows
    /\ buffer = <<>>
    /\ shown = <<>>
    /\ pending = FALSE
    /\ frames = 0
    /\ arg = <<>>
    /\ ret = <<>>

\* The caller turns the sky as Left does (or not) and calls scene.render(t).
CallRender ==
    /\ pc = "idle"
    /\ frames < MaxCalls
    /\ frames' = frames + 1
    /\ \E t \in Times : time' = t
    /\ \E left \in BOOLEAN :
          scene' = [scene EXCEPT !.sky_rotation = AfterKeys(@, left, FALSE)]
    /\ pc' = "call"
    /\ UNCHANGED <<keys, claimed, rows, buffer, shown, pending, arg, ret>>

\* The caller keeps the returned buffer and what it was rendered for.
ReturnRender ==
    /\ pc = "rendered"
    /\ shown' = buffer
    /\ arg' = <<scene.sky_rotation, time>>
    /\ buffer' = <<>>
    /\ pending' = FALSE
    /\ pc' = "idle"
    /\ UNCHANGED <<scene, time, keys, claimed, rows, frames, ret>>

NextRender == CallRender \/ Render \/ ReturnRender

SpecRender == InitRender /\ [][NextRender]_vars
\* ------------------------------------------- ray_intersect as a function
\* Scene's fields are pub: ray_intersect is taken on Scene::new() with the
\* radii and orbit radii of the two planets set by the caller.
WithPlanets(self, rocky_radius, rocky_orbit, gas_radius, gas_orbit) ==
    [self EXCEPT !.rocky_planet.radius = rocky_radius,
                 !.rocky_orbit_radius = rocky_orbit,
                 !.gas_giant.radius = gas_radius,
                 !.gas_orbit_radius = gas_orbit]

Scenes ==
    {WithPlanets(Scene_new(<<>>), rr, ro, gr, go) :
        rr \in {S \div 2, S}, ro \in {0, 2 * S},
        gr \in {(8 * S) \div 10, S \div 2, S}, go \in {0, 2 * S, (7 * S) \div 2}}

\* The rays the camera generates for u = 0, 1/8, .., 7/8 and v = 1, 3/4, 1/2.
CameraRays ==
    {get_ray(Scene_new(<<>>).camera, (i * S) \div 8, S - (j * S) \div 4) :
        i \in 0..7, j \in 0..2}

\* 0 s and 2.6 s.
IntersectTimes == {0, 1395864320}

InitIntersect ==
    /\ pc = "enter"
    /\ scene \in Scenes
    /\ time \in IntersectTimes
    /\ arg \in CameraRays
    /\ ret = NoHit
    /\ keys = [left |-> FALSE, right |-> FALSE]
    /\ claimed = Idle
    /\ rows = NoRows
    /\ buffer = <<>>
    /\ shown = <<>>
    /\ pending = FALSE
    /\ frames = 0

\* renderer.rs 107-115.
StepSun ==
    /\ pc = "enter"
    /\ ret' = TestSun(scene, arg, ret)
    /\ pc' = "sun_tested"
    /\ UNCHANGED <<scene, time, keys, claimed, rows, buffer, shown, pending,
                   frames, arg>>

\* renderer.rs 118-132.
StepRocky ==
    /\ pc = "sun_tested"
    /\ ret' = TestRocky(scene, arg, time, ret)
    /\ pc' = "rocky_tested"
    /\ UNCHANGED <<scene, time, keys, claimed, rows, buffer, shown, pending,
                   frames, arg>>

\* renderer.rs 135-149.
StepGas ==
    /\ pc = "rocky_tested"
    /\ ret' = TestGas(scene, arg, time, ret)
    /\ pc' = "gas_tested"
    /\ UNCHANGED <<scene, time, keys, claimed, rows, buffer, shown, pending,
                   frames, arg>>

\* renderer.rs 151-155.
StepReturn ==
    /\ pc = "gas_tested"
    /\ ret' = HitResult(ret)
    /\ pc' = "returned"
    /\ UNCHANGED <<scene, time, keys, claimed, rows, buffer, shown, pending,
                   frames, arg>>

NextIntersect == StepSun \/ StepRocky \/ StepGas \/ StepReturn

SpecIntersect == InitIntersect /\ [][NextIntersect]_vars

\* --------------------------------------- ray_casting for one pixel, in steps
\* The spin turn of a body: its centre at time t and the angle -spin * t
\* (renderer.rs 174-180 and 186-192).
RockyTurn(self, t) ==
    [center |-> rocky_center(self, t),
     angle |-> -Mul(self.rocky_spin_speed, Fx(t))]

GasTurn(self, t) ==
    [center |-> gas_center(self, t),
     angle |-> -Mul(self.gas_spin_speed, Fx(t))]

\* A turn that moves the normal as if it were a point (rotated about the
\* centre, not about the axis through the origin).
LocalNormalAsPoint(hit, turn) ==
    [point |-> rotate_point_around_y(hit.point, turn.center, turn.angle),
     normal |-> rotate_point_around_y(hit.normal, turn.center, turn.angle)]

\* `rp` and `rn` (renderer.rs 181-182 and 193-194).
Local(hit, turn) ==
    [point |-> rotate_point_around_y(hit.point, turn.center, turn.angle),
     normal |-> rotate_vector_around_y(hit.normal, turn.angle)]

\* The arm `match hit_type` takes and what it hands to the shader.
ArmOf(self, hit, t) ==
    IF hit.some
    THEN CASE hit.val.type = 1 ->
                [arm |-> "sun", turn |-> None,
                 at |-> [point |-> hit.val.point, normal |-> hit.val.normal]]
           [] hit.val.type = 2 ->
                [arm |-> "rocky", turn |-> Some(RockyTurn(self, t)),
                 at |-> Local(hit.val, RockyTurn(self, t))]
           [] hit.val.type = 3 ->
                [arm |-> "gas", turn |-> Some(GasTurn(self, t)),
                 at |-> Local(hit.val, GasTurn(self, t))]
           [] OTHER -> [arm |-> "zero", turn |-> None, at |-> None]
    ELSE [arm |-> "sky", turn |-> None, at |-> None]

\* The value of the arm: `pixel`.
ArmPixel(self, ray, t, a) ==
    CASE a.arm = "sun" ->
            vec3_to_color(sun_shader(a.at.point, a.at.normal, ray.direction,
                                     Fx(t)))
      [] a.arm = "rocky" ->
            vec3_to_color(rocky_shader(a.at.point, a.at.normal, ray.direction,
                                       Fx(t)))
      [] a.arm = "gas" ->
            vec3_to_color(gas_giant_shader(a.at.point, a.at.normal,
                                           ray.direction, Fx(t)))
      [] a.arm = "sky" -> ShadeSky(self, ray, t)
      [] OTHER -> 0

\* Scene::new() with the sky turned, and one scene whose three spheres
\* coincide (pub fields set by the caller).
PixelScenes ==
    {[Scene_new(CatalogB) EXCEPT !.sky_rotation = r] :
        r \in {0, SKY_STEP, -SKY_STEP}}
    \cup {WithPlanets(Scene_new(CatalogB), S, 0, S, 0)}

\* u = 0, 1/16, .., 15/16 and v = 1, 17/32, 1/2.
PixelRays ==
    {get_ray(Scene_new(<<>>).camera, (i * S) \div 16, v) :
        i \in 0..15, v \in {S, (17 * S) \div 32, S \div 2}}

\* 0 s, 0.016 s and 2.6 s.
PixelTimes == {0, DT, 1395864320}

InitPixel ==
    /\ pc = "ray"
    /\ scene \in PixelScenes
    /\ time \in PixelTimes
    /\ arg \in PixelRays
    /\ ret = [hit |-> None]
    /\ keys = [left |-> FALSE, right |-> FALSE]
    /\ claimed = Idle
    /\ rows = NoRows
    /\ buffer = <<>>
    /\ shown = <<>>
    /\ pending = FALSE
    /\ frames = 0

\* `match self.ray_intersect(&ray, time)` (renderer.rs 168).
PixelIntersect ==
    /\ pc = "ray"
    /\ ret' = [hit |-> ray_intersect(scene, arg, time)]
    /\ pc' = "matched"
    /\ UNCHANGED <<scene, time, keys, claimed, rows, buffer, shown, pending,
                   frames, arg>>

\* The arm is chosen and the hit is turned (renderer.rs 169-201).
PixelLocal ==
    /\ pc = "matched"
    /\ ret' = [hit |-> ret.hit, local |-> ArmOf(scene, ret.hit, time)]
    /\ pc' = "local"
    /\ UNCHANGED <<scene, time, keys, claimed, rows, buffer, shown, pending,
                   frames, arg>>

\* The shader runs and its colour is packed (renderer.rs 171-204).
PixelShade ==
    /\ pc = "local"
    /\ ret' = [hit |-> ret.hit, local |-> ret.local,
               pixel |-> ArmPixel(scene, arg, time, ret.local)]
    /\ pc' = "shaded"
    /\ UNCHANGED <<scene, time, keys, claimed, rows, buffer, shown, pending,
                   frames, arg>>

NextPixel == PixelIntersect \/ PixelLocal \/ PixelShade

SpecPixel == InitPixel /\ [][NextPixel]_vars

\* ---------------------------------------------------------- framebuffer.rs
\* f32 `<`: false when an operand is NaN.
FLt(a, b) == a # NAN /\ b # NAN /\ a < b

\* Framebuffer::new: width * height black pixels at depth INFINITY.
Framebuffer_new(width, height) ==
    [width |-> width, height |-> height,
     pixels |-> [i \in 1..(width * height) |-> Color_new(0, 0, 0)],
     depth |-> [i \in 1..(width * height) |-> INFINITY]]

\* A depth test that also lets an equal depth through.
NearerOrEqual(z, stored) == FLt(z, stored) \/ z = stored

\* `if z < self.depth[idx]`.
Nearer(z, stored) == FLt(z, stored)

\* `if z < self.depth[idx] { self.depth[idx] = z; self.pixels[idx] = color; }`
\* (vectors are 1-based here: entry idx is at idx + 1).
DepthTest(self, idx, z, color) ==
    IF Nearer(z, self.depth[idx + 1])
    THEN [self EXCEPT !.depth[idx + 1] = z, !.pixels[idx + 1] = color]
    ELSE self

\* Framebuffer::set_pixel.
set_pixel(self, x, y, z, color) ==
    IF x < 0 \/ y < 0
    THEN self
    ELSE IF x >= self.width \/ y >= self.height
         THEN self
         ELSE DepthTest(self, y * self.width + x, z, color)

\* The calls made on one framebuffer.
MaxSetPixels == 3

\* A 2 x 2 framebuffer; coordinates inside it and beyond each of its edges.
FbWidth == 2
FbHeight == 2

FbCoords ==
    {<<0, 0>>, <<1, 0>>, <<0, 1>>, <<-1, 0>>, <<0, -1>>, <<2, 0>>, <<0, 2>>}

\* Depths: two finite ones, INFINITY and NaN.
FbDepths == {S, 2 * S, INFINITY, NAN}

\* The colour of the k-th call (never black, different for every call).
CallColor(k) == Color_new((k * S) \div 8, S - (k * S) \div 8, S \div 2)

InitFramebuffer ==
    /\ pc = "fb"
    /\ ret = Framebuffer_new(FbWidth, FbHeight)
    /\ arg = <<>>
    /\ frames = 0
    /\ scene = Scene_new(<<>>)
    /\ time = 0
    /\ keys = [left |-> FALSE, right |-> FALSE]
    /\ claimed = Idle
    /\ rows = NoRows
    /\ buffer = <<>>
    /\ shown = <<>>
    /\ pending = FALSE

\* fb.set_pixel(x, y, z, color); arg keeps the calls made so far.
CallSetPixel ==
    /\ pc = "fb"
    /\ frames < MaxSetPixels
    /\ \E c \in FbCoords, z \in FbDepths :
          /\ ret' = set_pixel(ret, c[1], c[2], z, CallColor(frames + 1))
          /\ arg' = Append(arg, [x |-> c[1], y |-> c[2], z |-> z,
                                 color |-> CallColor(frames + 1)])
    /\ frames' = frames + 1
    /\ UNCHANGED <<pc, scene, time, keys, claimed, rows, buffer, shown, pending>>

NextFramebuffer == CallSetPixel

SpecFramebuffer == InitFramebuffer /\ [][NextFramebuffer]_vars

\* ------------------------------------- the sphere tests as functions
\* Origins outside, on and inside the spheres below; directions toward and
\* away from them, along the axes and oblique (not all of unit length).
Origins ==
    {vec3(0, 0, 10 * S), vec3(0, 0, S), vec3(0, 0, S \div 2), vec3(0, 0, 0),
     vec3(0, 0, -3 * S), vec3(S \div 2, 0, 2 * S)}

Directions ==
    {vec3(0, 0, -S), vec3(0, 0, S), vec3(0, S, 0), vec3(S, 0, -S),
     vec3(-S \div 2, 0, -S),
     get_ray(Scene_new(<<>>).camera, (5 * S) \div 8, S \div 2).direction}

Centers == {vec3(0, 0, 0), vec3(0, 0, 5 * S), vec3(0, S, 0), vec3(2 * S, 0, 0)}

Radii == {S \div 2, S}

InitSphere ==
    /\ pc = "input"
    /\ arg \in [origin : Origins, direction : Directions, center : Centers,
                radius : Radii]
    /\ ret = <<>>
    /\ scene = <<>>
    /\ time = 0
    /\ keys = [left |-> FALSE, right |-> FALSE]
    /\ claimed = Idle
    /\ rows = NoRows
    /\ buffer = <<>>
    /\ shown = <<>>
    /\ pending = FALSE
    /\ frames = 0

\* sphere.intersect(&ray) on Sphere::new(center, radius).
CallSphereIntersect ==
    /\ pc = "input"
    /\ ret' = Sphere_intersect(Sphere_new(arg.center, arg.radius),
                               Ray(arg.origin, arg.direction))
    /\ pc' = "method"
    /\ UNCHANGED <<scene, time, keys, claimed, rows, buffer, shown, pending,
                   frames, arg>>

\* intersect_sphere(&center, radius, &ray).
CallIntersectSphere ==
    /\ pc = "input"
    /\ ret' = intersect_sphere(arg.center, arg.radius,
                               Ray(arg.origin, arg.direction))
    /\ pc' = "function"
    /\ UNCHANGED <<scene, time, keys, claimed, rows, buffer, shown, pending,
                   frames, arg>>

NextSphere == CallSphereIntersect \/ CallIntersectSphere

SpecSphere == InitSphere /\ [][NextSphere]_vars

\* ------------------------------------------- the packing as a function
\* Channel values: the non-finite ones, values below 0 and above 1, the
\* ends of [0, 1] and values on both sides of a step of the 8-bit scale.
Channels ==
    {NAN, INFINITY, NEG_INFINITY, -S, -1, 0, 1, 39, 40, S \div 2, 5019, 5020,
     S - 1, S, S + 1, 2 * S}

InitPack ==
    /\ pc = "input"
    /\ arg \in {vec3(r, g, b) : r \in Channels, g \in Channels, b \in Channels}
    /\ ret = <<>>
    /\ scene = <<>>
    /\ time = 0
    /\ keys = [left |-> FALSE, right |-> FALSE]
    /\ claimed = Idle
    /\ rows = NoRows
    /\ buffer = <<>>
    /\ shown = <<>>
    /\ pending = FALSE
    /\ frames = 0

\* vec3_to_color(arg)
CallVec3ToColor ==
    /\ pc = "input"
    /\ ret' = vec3_to_color(arg)
    /\ pc' = "packed_u32"
    /\ UNCHANGED <<scene, time, keys, claimed, rows, buffer, shown, pending,
                   frames, arg>>

\* Color::new(r, g, b).clamp_u8()
CallClampU8 ==
    /\ pc = "input"
    /\ ret' = clamp_u8(Color_new(arg.x, arg.y, arg.z))
    /\ pc' = "packed_u8"
    /\ UNCHANGED <<scene, time, keys, claimed, rows, buffer, shown, pending,
                   frames, arg>>

NextPack == CallVec3ToColor \/ CallClampU8

SpecPack == InitPack /\ [][NextPack]_vars

\* --------------------------------------------- the skybox as a function
\* Three neighbouring stars: a direction between them is within the threshold
\* of more than one.
CatalogC ==
    <<Star(vec3(0, 0, -S), (8 * S) \div 10, vec3(S, (95 * S) \div 100, (9 * S) \div 10)),
      Star(normalize(vec3(200, 0, -S)), S \div 2,
           vec3((9 * S) \div 10, (95 * S) \div 100, S)),
      Star(normalize(vec3(0, 200, -S)), S,
           vec3(S, (9 * S) \div 10, (7 * S) \div 10))>>

SkyCatalogs == {CatalogA, CatalogB, CatalogC}

\* View directions on and around the catalog directions.
SkyDirs ==
    {vec3(0, 0, -S), vec3(0, S, 0), vec3(-S, 0, 0), vec3(S, 0, 0),
     normalize(vec3(100, 0, -S)), normalize(vec3(200, 0, -S)),
     normalize(vec3(100, 100, -S)), normalize(vec3(300, 0, -S)),
     normalize(vec3(400, 0, -S)),
     get_ray(Scene_new(<<>>).camera, 0, S).direction}

\* sky_rotation + time * 0.05 for a few key presses and times.
SkyRotations == {0, 300, -300, 600, HALF_PI, 1300}

InitSky ==
    /\ pc = "input"
    /\ scene \in {Scene_new(c) : c \in SkyCatalogs}
    /\ arg \in [dir : SkyDirs, rotation : SkyRotations]
    /\ ret = <<>>
    /\ time = 0
    /\ keys = [left |-> FALSE, right |-> FALSE]
    /\ claimed = Idle
    /\ rows = NoRows
    /\ buffer = <<>>
    /\ shown = <<>>
    /\ pending = FALSE
    /\ frames = 0

\* self.skybox_color(&dir, rotation)
CallSkybox ==
    /\ pc = "input"
    /\ ret' = skybox_color(scene, arg.dir, arg.rotation)
    /\ pc' = "sky_done"
    /\ UNCHANGED <<scene, time, keys, claimed, rows, buffer, shown, pending,
                   frames, arg>>

NextSky == CallSkybox

SpecSky == InitSky /\ [][NextSky]_vars

\* ================================================================ claims
\* ------------------------------------------------ ray_intersect (C1, C2)
\* What the three sphere tests report for the ray under test, in the order
\* of the code: sun, rocky planet, gas giant.
Reports ==
    <<Sphere_intersect(scene.sun, arg),
      intersect_sphere(rocky_center(scene, time), scene.rocky_planet.radius, arg),
      intersect_sphere(gas_center(scene, time), scene.gas_giant.radius, arg)>>

\* The centres the three tests use.
BodyCenters ==
    <<scene.sun.center, rocky_center(scene, time), gas_center(scene, time)>>

\* The bodies that report an intersection.
Hitting == {i \in 1..3 : Reports[i].some}

\* The bodies that report the smallest t.
Nearest == {i \in Hitting : \A j \in Hitting : Reports[i].val <= Reports[j].val}

\* The bodies tested once control stands at pc.
Tested ==
    CASE pc = "enter" -> {}
      [] pc = "sun_tested" -> {1}
      [] pc = "rocky_tested" -> {1, 2}
      [] OTHER -> {1, 2, 3}

\* C1: ray_intersect tests sun, rocky planet, gas giant in this order and
\* returns the hit with the smallest of the reported t values, each reported t
\* being > 0, tagged with a body that reports this smallest t; it returns None
\* exactly when no body reports an intersection.
C1_NearestHitReturned ==
    /\ pc \in {"sun_tested", "rocky_tested", "gas_tested"}
          => /\ ret.hit_type \in Tested \cup {0}
             /\ (ret.hit_type = 0) = (Tested \cap Hitting = {})
             /\ ret.hit_type # 0
                   => /\ ret.closest_hit = Reports[ret.hit_type].val
                      /\ \A i \in Tested \cap Hitting :
                            ret.closest_hit <= Reports[i].val
    /\ pc = "returned"
          => /\ ret = ray_intersect(scene, arg, time)
             /\ ret.some = (Hitting # {})
             /\ \A i \in Hitting : Reports[i].val > 0
             /\ ret.some
                   => /\ ret.val.type \in Nearest
                      /\ ret.val.t = Reports[ret.val.type].val
                      /\ \A i \in Hitting : ret.val.t <= Reports[i].val

\* A returned hit on the rocky planet where the sun, tested first, reports a
\* larger t.
C1_Witness ==
    /\ pc = "returned"
    /\ ret.some
    /\ ret.val.type = 2
    /\ Reports[1].some
    /\ Reports[2].val < Reports[1].val

\* C2: when several bodies report the same smallest t, the returned point,
\* normal and tag are those of the body tested first among them; a body tested
\* later holds the hit only if its t is strictly smaller than the t of every
\* body tested before it.
C2_TieKeepsFirstTested ==
    /\ pc \in {"sun_tested", "rocky_tested", "gas_tested"} /\ ret.hit_type # 0
          => \A i \in Tested \cap Hitting :
                i < ret.hit_type => Reports[ret.hit_type].val < Reports[i].val
    /\ pc = "returned" /\ ret.some
          => /\ \A i \in Nearest : ret.val.type <= i
             /\ ret.val.point = PointAt(arg, Reports[ret.val.type].val)
             /\ ret.val.normal
                   = normalize(VSub(ret.val.point, BodyCenters[ret.val.type]))

\* A returned hit for whose t two bodies tie.
C2_Witness ==
    /\ pc = "returned"
    /\ ret.some
    /\ Cardinality(Nearest) >= 2
    /\ ret.val.type = 2
    /\ 3 \in Nearest

\* ------------------------------------------------- the sphere tests (C5)
\* a, b and the discriminant of the call under test.
CallQuadratic ==
    QuadraticOf(VSub(arg.origin, arg.center), arg.direction, arg.radius)

\* c = |origin - center|^2 - radius^2 of the call under test: at most 0 when
\* the origin is on or inside the sphere.
CallC ==
    dot(VSub(arg.origin, arg.center), VSub(arg.origin, arg.center))
    - Mul(arg.radius, arg.radius)

\* (-b - sqrt(disc)) / (2a) of the call under test (disc >= 0).
CallSmallerRoot ==
    Div(-CallQuadratic.b - Sqrt(CallQuadratic.disc), 2 * CallQuadratic.a)

\* C5: Sphere::intersect and intersect_sphere report nothing when the
\* discriminant is negative; otherwise they report the smaller root, and only
\* when it is > 0.  Every reported t is > 0; a ray that starts on or inside the
\* sphere, or that moves away from its centre, gets no hit.
C5_SmallerRootIfPositive ==
    pc \in {"method", "function"}
       => /\ CallQuadratic.disc < 0 => ret = None
          /\ CallQuadratic.disc >= 0
                => ret = (IF CallSmallerRoot > 0 THEN Some(CallSmallerRoot)
                          ELSE None)
          /\ ret.some => ret.val > 0
          /\ CallC <= 0 => ret = None
          /\ CallQuadratic.b >= 0 => ret = None

\* Sphere::intersect called from inside a sphere the ray leaves through its far
\* side: the discriminant is positive, the smaller root is negative.
C5_Witness ==
    /\ pc = "method"
    /\ CallC < 0
    /\ CallQuadratic.disc > 0
    /\ CallSmallerRoot < 0
    /\ ret = None

\* ----------------------------------------------------- packing (C6, C7)
\* The channels of the colour under test and the bytes of the packed value.
ArgChannel(i) == <<arg.x, arg.y, arg.z>>[i]

PackedByte(i) == <<ret \div 65536, (ret \div 256) % 256, ret % 256>>[i]

\* A finite channel clamped to [0, 1].
Clamp01(c) == IF c < 0 THEN 0 ELSE IF c > S THEN S ELSE c

\* C6: vec3_to_color returns (R << 16) | (G << 8) | B, each channel being the
\* component clamped to [0, 1], times 255, truncated: (1, 0, 0) gives 0xFF0000,
\* (0, 0, 0) gives 0, a component below 0 gives 0, one above 1 gives 255, and
\* the result is at most 0xFFFFFF.
C6_PackTruncates ==
    pc = "packed_u32"
       => /\ 0 <= ret /\ ret <= 16777215
          /\ \A i \in 1..3 :
                is_finite(ArgChannel(i))
                   => /\ PackedByte(i) = (255 * Clamp01(ArgChannel(i))) \div S
                      /\ ArgChannel(i) < 0 => PackedByte(i) = 0
                      /\ ArgChannel(i) > S => PackedByte(i) = 255
          /\ arg = vec3(S, 0, 0) => ret = 16711680
          /\ arg = vec3(0, 0, 0) => ret = 0

\* 0.5 * 255 = 127.5 is packed as 127, beside a channel above 1 and one
\* below 0.
C6_Witness ==
    /\ pc = "packed_u32"
    /\ arg = vec3(S \div 2, 2 * S, -S)
    /\ ret = 127 * 65536 + 255 * 256

\* C7: a channel that is NaN, +infinity or -infinity is packed as 0 by
\* vec3_to_color and by Color::clamp_u8.
C7_NonFinitePackedAsZero ==
    /\ pc = "packed_u32"
          => \A i \in 1..3 : ~is_finite(ArgChannel(i)) => PackedByte(i) = 0
    /\ pc = "packed_u8"
          => \A i \in 1..3 : ~is_finite(ArgChannel(i)) => ret[i] = 0

\* ---------------------------------------------------------- skybox (C9)
\* The dot product of catalog star i with the rotated view direction.
StarDot(i) == dot(SkyDir(arg.dir, arg.rotation), scene.stars[i].dir)

\* tint * ((d - 0.9995) / (1 - 0.9995))^2 * brightness, or nothing at or
\* below the threshold.
Contribution(i) ==
    IF StarDot(i) > (9995 * S) \div 10000
    THEN VScale(scene.stars[i].color,
                Mul(Mul(Div(StarDot(i) - (9995 * S) \div 10000,
                            S - (9995 * S) \div 10000),
                        Div(StarDot(i) - (9995 * S) \div 10000,
                            S - (9995 * S) \div 10000)),
                    scene.stars[i].brightness))
    ELSE vec3(0, 0, 0)

RECURSIVE ContributionsFrom(_)
\* The contributions of the stars i, i + 1, .. of the catalog, summed.
ContributionsFrom(i) ==
    IF i > Len(scene.stars) THEN vec3(0, 0, 0)
    ELSE VAdd(Contribution(i), ContributionsFrom(i + 1))

\* C9: skybox_color returns the ambient colour (0.02, 0.03, 0.06) plus the
\* sum, over the catalog stars whose dot product d with the rotated direction
\* is above 0.9995, of tint * ((d - 0.9995) / (1 - 0.9995))^2 * brightness: a
\* star at d = 1 adds tint * brightness, a star at or below the threshold adds
\* nothing, and no channel of the result is below the ambient colour.
C9_SkyboxSumsStars ==
    pc = "sky_done"
       => /\ ret = VAdd(vec3((2 * S) \div 100, (3 * S) \div 100, (6 * S) \div 100),
                        ContributionsFrom(1))
          /\ ret.x >= (2 * S) \div 100
          /\ ret.y >= (3 * S) \div 100
          /\ ret.z >= (6 * S) \div 100
          /\ \A i \in 1..Len(scene.stars) :
                /\ StarDot(i) = S
                      => Contribution(i)
                            = VScale(scene.stars[i].color,
                                     scene.stars[i].brightness)
                /\ StarDot(i) <= (9995 * S) \div 10000
                      => Contribution(i) = vec3(0, 0, 0)
          /\ (\A i \in 1..Len(scene.stars) : StarDot(i) <= (9995 * S) \div 10000)
                => ret = vec3((2 * S) \div 100, (3 * S) \div 100, (6 * S) \div 100)

\* A direction within the threshold of two stars and outside it for a third:
\* two contributions are summed.
C9_Witness ==
    /\ pc = "sky_done"
    /\ Cardinality({i \in 1..Len(scene.stars) :
                      StarDot(i) > (9995 * S) \div 10000 /\ StarDot(i) < S}) = 2
    /\ \E i \in 1..Len(scene.stars) : StarDot(i) <= (9995 * S) \div 10000
    /\ ret.x > (2 * S) \div 100

\* ------------------------------------------------- render (C3, C4, C8)
\* The buffer of `for y in 0..HEIGHT { for x in 0..WIDTH { push(pixel) } }`:
\* the k-th push is the pixel of column (k - 1) % WIDTH, row (k - 1) / WIDTH.
SeqRender(self, t) ==
    [k \in 1..(WIDTH * HEIGHT) |->
        Pixel(self, (k - 1) % WIDTH, (k - 1) \div WIDTH, t)]

\* Scene::new() with the catalog and the sky_rotation of the scene in use.
Pristine ==
    [Scene_new(scene.stars) EXCEPT !.sky_rotation = scene.sky_rotation]

\* C3: whatever thread computes which row and in whatever order the rows are
\* finished, the buffer render returns is the buffer of the sequential loop
\* over y and x; a second call for the same scene and time returns the buffer
\* of the first.
C3_RenderDeterministic ==
    /\ pc = "rendered" => buffer = SeqRender(scene, time)
    /\ pc = "rendered" /\ arg = <<scene.sky_rotation, time>> => buffer = shown

\* A second call of render returned, for the sky and the time of the first;
\* the rows of the image differ from each other.
C3_Witness ==
    /\ pc = "rendered"
    /\ frames = 2
    /\ arg = <<scene.sky_rotation, time>>
    /\ buffer = shown
    /\ \E x \in 1..WIDTH : buffer[x] # buffer[(HEIGHT - 1) * WIDTH + x]

\* C4: the returned buffer has WIDTH * HEIGHT entries; entry y * WIDTH + x is
\* the colour of the ray for u = x / WIDTH and v = 1 - y / HEIGHT, so row 0 is
\* the top of the image (its rays point above those of every later row).
C4_BufferRowMajorTopFirst ==
    pc = "rendered"
       => /\ Len(buffer) = WIDTH * HEIGHT
          /\ \A x \in 0..(WIDTH - 1), y \in 0..(HEIGHT - 1) :
                /\ buffer[y * WIDTH + x + 1]
                      = ShadeRay(scene,
                                 get_ray(scene.camera, Div(x * S, WIDTH * S),
                                         S - Div(y * S, HEIGHT * S)),
                                 time)
                /\ y > 0
                      => get_ray(scene.camera, Div(x * S, WIDTH * S),
                                 S).direction.y
                         > get_ray(scene.camera, Div(x * S, WIDTH * S),
                                   S - Div(y * S, HEIGHT * S)).direction.y

\* A returned image whose top-left entry is not its bottom-left entry and
\* whose last row holds different colours.
C4_Witness ==
    /\ pc = "rendered"
    /\ Len(buffer) = WIDTH * HEIGHT
    /\ buffer[1] # buffer[(HEIGHT - 1) * WIDTH + 1]
    /\ \E x \in 2..WIDTH :
          buffer[(HEIGHT - 1) * WIDTH + x] # buffer[(HEIGHT - 1) * WIDTH + 1]

\* C8: no step of a render changes the Scene; a step that changes the row
\* vector of row y is the step of the thread that took row y, and it changes
\* no other row; the buffer of a render at time t, after any earlier renders,
\* is the buffer Scene::new() (same catalog, same sky_rotation) gives for t.
C8_RenderLeavesSceneAlone ==
    [][/\ pc \in {"call", "render"} => scene' = scene
       /\ pc = "render" /\ pc' = "render"
             => \A y \in RowIds :
                   rows'[y] # rows[y]
                      => /\ \E w \in Workers : claimed[w] = y /\ claimed'[w] = -1
                         /\ \A z \in RowIds \ {y} : rows'[z] = rows[z]
       /\ pc = "render" /\ pc' = "rendered"
             => /\ buffer' = SeqRender(Pristine, time)
                /\ rocky_center(scene', time') = rocky_center(Pristine, time)
                /\ gas_center(scene', time') = gas_center(Pristine, time)]_vars

\* A second render returned, for another time than the first, and the scene
\* is still Scene::new() but for its sky_rotation.
C8_Witness ==
    /\ pc = "rendered"
    /\ frames = 2
    /\ Len(arg) = 2
    /\ arg[2] # time
    /\ scene = Pristine

\* ------------------------------------------------------ host loop (C10)
\* sky_rotation after the key handling of one iteration, in f32.
SkyAfter(sky, left, right) ==
    CASE left /\ right -> F32Add(F32Sub(sky, SKY_STEP), SKY_STEP)
      [] left /\ ~right -> F32Sub(sky, SKY_STEP)
      [] ~left /\ right -> F32Add(sky, SKY_STEP)
      [] OTHER -> sky

TurnY(v, a) ==
    vec3(Mul(v.x, Cos(a)) - Mul(v.z, Sin(a)),
         v.y,
         Mul(v.x, Sin(a)) + Mul(v.z, Cos(a)))

\* The spin angle -spin_speed * time of the body with the tag `type`.
SpinAngle(type) ==
    IF type = 2 THEN -Mul(scene.rocky_spin_speed, Fx(time))
                ELSE -Mul(scene.gas_spin_speed, Fx(time))

\* Rounding allowed when lengths before and after a turn are compared (1%).
TurnEps == S \div 100

\* |a - b|^2
Dist2(a, b) == dot(VSub(a, b), VSub(a, b))

\* loc is the hit turned by the angle a about the Y axis through c: the
\* point about c, the normal with no translation.
SpinTurned(hit, loc, c, a) ==
    /\ loc.turn = Some([center |-> c, angle |-> a])
    /\ hit.normal = normalize(VSub(hit.point, c))
    /\ loc.at.point = VAdd(TurnY(VSub(hit.point, c), a), c)
    /\ loc.at.normal = TurnY(hit.normal, a)
    /\ loc.at.point.y = hit.point.y
    /\ loc.at.normal.y = hit.normal.y
    /\ Abs(Dist2(loc.at.point, c) - Dist2(hit.point, c)) <= TurnEps
    /\ Abs(dot(loc.at.normal, loc.at.normal) - S) <= TurnEps

\* C11: for a pixel whose closest hit is the rocky body or the gas giant, the
\* shader gets the hit point turned about the world Y axis through the centre
\* ray_intersect used for that body, and the normal turned about the Y axis
\* with no translation, both by -spin_speed * time of that body; a sun hit is
\* shaded with the point and the normal ray_intersect returned.
C11_SpinTurnsPointAndNormal ==
    pc \in {"local", "shaded"} /\ ret.hit.some
       => /\ ret.hit.val.type = 1
                => /\ ret.local.arm = "sun"
                   /\ ret.local.at.point = ret.hit.val.point
                   /\ ret.local.at.normal = ret.hit.val.normal
                   /\ pc = "shaded"
                         => ret.pixel
                               = vec3_to_color(
                                    sun_shader(ret.hit.val.point,
                                               ret.hit.val.normal,
                                               arg.direction, Fx(time)))
          /\ ret.hit.val.type \in {2, 3}
                => /\ ret.local.arm
                         = (IF ret.hit.val.type = 2 THEN "rocky" ELSE "gas")
                   /\ SpinTurned(ret.hit.val, ret.local,
                                 BodyCenters[ret.hit.val.type],
                                 SpinAngle(ret.hit.val.type))

\* A pixel that hits the rocky body or the gas giant off its equator, at a
\* time when the spin angle is not 0 and the body's centre is not the origin:
\* the turn moved the point and the normal.
C11_Witness ==
    /\ pc = "shaded"
    /\ ret.hit.some
    /\ ret.hit.val.type \in {2, 3}
    /\ time > 0
    /\ SpinAngle(ret.hit.val.type) # 0
    /\ BodyCenters[ret.hit.val.type] # vec3(0, 0, 0)
    /\ ret.local.at.point # ret.hit.val.point
    /\ ret.local.at.normal # ret.hit.val.normal
    /\ ret.hit.val.normal.y # 0

\* ----------------------------------------------- depth buffer (C12)
\* The calls so far with exactly the coordinates (x, y).
CallsAt(x, y) == {k \in 1..Len(arg) : arg[k].x = x /\ arg[k].y = y}

\* Those of them whose z is a number (not NaN).
NumberedAt(x, y) == {k \in CallsAt(x, y) : arg[k].z # NAN}

\* Those of them whose z is below INFINITY.
BelowInfinityAt(x, y) == {k \in NumberedAt(x, y) : arg[k].z < INFINITY}

\* The minimum z over the calls ks (INFINITY if there are none).
MinZ(ks) ==
    IF ks = {}
    THEN INFINITY
    ELSE CHOOSE m \in {arg[k].z : k \in ks} : \A k \in ks : m <= arg[k].z

\* The colour of the earliest of the calls ks with that minimum (black if
\* there are none).
EarliestColor(ks) ==
    IF ks = {}
    THEN Color_new(0, 0, 0)
    ELSE arg[CHOOSE k \in ks :
                /\ arg[k].z = MinZ(ks)
                /\ \A j \in ks : arg[j].z = MinZ(ks) => k <= j].color

\* The last call made had coordinates outside the framebuffer.
OutOfRange(c) == c.x < 0 \/ c.y < 0 \/ c.x >= FbWidth \/ c.y >= FbHeight

\* C12 (amended): after any sequence of set_pixel calls, depth[y*width + x]
\* is the minimum z over the earlier calls at exactly that in-range (x, y)
\* whose z is below INFINITY (INFINITY if there were none), and the pixel's
\* colour is the colour of the earliest of those calls that attained the
\* minimum (black if there were none: a call with z = INFINITY or NaN stores
\* nothing); a stored depth never increases, and a call with x < 0, y < 0,
\* x >= width or y >= height changes neither pixels nor depth.
C12_DepthKeepsNearest ==
    /\ [](pc = "fb"
             => /\ Len(ret.depth) = FbWidth * FbHeight
                /\ Len(ret.pixels) = FbWidth * FbHeight
                /\ \A x \in 0..(FbWidth - 1), y \in 0..(FbHeight - 1) :
                      /\ ret.depth[y * FbWidth + x + 1]
                            = MinZ(BelowInfinityAt(x, y))
                      /\ ret.pixels[y * FbWidth + x + 1]
                            = EarliestColor(BelowInfinityAt(x, y)))
    /\ [][pc = "fb"
             => /\ \A i \in 1..(FbWidth * FbHeight) :
                      ret'.depth[i] <= ret.depth[i]
                /\ OutOfRange(arg'[Len(arg')]) => ret' = ret]_vars

\* Three calls at the pixel (0, 1): depth 2, then depth 1 twice; the pixel
\* keeps the colour of the second call.
C12_Witness ==
    /\ pc = "fb"
    /\ Len(arg) = 3
    /\ arg[1].z = 2 * S /\ arg[2].z = S /\ arg[3].z = S
    /\ \A k \in 1..3 : arg[k].x = 0 /\ arg[k].y = 1
    /\ ret.depth[FbWidth + 1] = S
    /\ ret.pixels[FbWidth + 1] = arg[2].color

\* C12 as stated: the minimum and the colour are taken over every earlier
\* call at the pixel (a NaN z is left out of the minimum).
C12_EveryCallCounts ==
    pc = "fb"
       => \A x \in 0..(FbWidth - 1), y \in 0..(FbHeight - 1) :
             /\ ret.depth[y * FbWidth + x + 1] = MinZ(NumberedAt(x, y))
             /\ ret.pixels[y * FbWidth + x + 1]
                   = EarliestColor(NumberedAt(x, y))

\* ------------------------------------------- every pixel shaded (C13)
\* The packed colour the arm of the tag `type` computes from what ArmOf
\* handed it (0: the None arm).
ExpectedPixel(type) ==
    CASE type = 0 ->
            vec3_to_color(skybox_color(scene, arg.direction,
                                       Fx(scene.sky_rotation)
                                       + Mul(Fx(time), (5 * S) \div 100)))
      [] type = 1 ->
            vec3_to_color(sun_shader(ret.local.at.point, ret.local.at.normal,
                                     arg.direction, Fx(time)))
      [] type = 2 ->
            vec3_to_color(rocky_shader(ret.local.at.point, ret.local.at.normal,
                                       arg.direction, Fx(time)))
      [] type = 3 ->
            vec3_to_color(gas_giant_shader(ret.local.at.point,
                                           ret.local.at.normal,
                                           arg.direction, Fx(time)))

\* The arm of a tag.
ArmNames == <<"sun", "rocky", "gas">>

\* C13: a hit ray_intersect returns has a tag in {1, 2, 3}, the t the body of
\* that tag reports, the point origin + direction * t and the normal of that
\* body there; the arm that writes 0 is never taken; the pixel is the packed
\* colour of the shader of the tag or, on a miss, of the skybox turned by
\* sky_rotation + time * 0.05, and it is the pixel render puts in the buffer.
C13_EveryPixelShaded ==
    /\ pc \in {"matched", "local", "shaded"} /\ ret.hit.some
          => /\ ret.hit.val.type \in {1, 2, 3}
             /\ Reports[ret.hit.val.type] = Some(ret.hit.val.t)
             /\ ret.hit.val.point
                   = VAdd(arg.origin, VScale(arg.direction, ret.hit.val.t))
             /\ ret.hit.val.normal
                   = normalize(VSub(ret.hit.val.point,
                                    BodyCenters[ret.hit.val.type]))
    /\ pc \in {"local", "shaded"}
          => /\ ret.local.arm # "zero"
             /\ ret.local.arm
                   = (IF ret.hit.some THEN ArmNames[ret.hit.val.type] ELSE "sky")
    /\ pc = "shaded"
          => /\ ret.pixel
                   = ExpectedPixel(IF ret.hit.some THEN ret.hit.val.type ELSE 0)
             /\ ret.pixel = ShadeRay(scene, arg, time)

\* A pixel of the rocky body, shaded, at a time when it passes in front of
\* the sun (Scene::new()'s own orbit): two bodies report on the ray.
C13_Witness ==
    /\ pc = "shaded"
    /\ ret.hit.some
    /\ ret.hit.val.type = 2
    /\ ret.local.arm = "rocky"
    /\ scene.rocky_orbit_radius > 0
    /\ Cardinality(Hitting) >= 2
    /\ ret.pixel = ExpectedPixel(2)
    /\ ret.pixel # 0

=============================================================================
